---- MODULE Spec2Model ----
(***************************************************************************)
(* Model of safe/common/numerics.py (webandgis): the grid/point toolkit,   *)
(* the geotransform axes, the NaN-aware comparison, the erf approximation   *)
(* and ensure_numeric.  Every function is pure; a behaviour is one call:    *)
(* Init draws the function and its arguments, the function's action runs    *)
(* the whole body and records what it returned or raised.                   *)
(***************************************************************************)
EXTENDS Integers, Sequences, FiniteSets, TLC

VARIABLES pc, call, result, arrays, boolNegative

vars == <<pc, call, result, arrays, boolNegative>>

(* ------------------------------ bounds --------------------------------- *)

\* longest coordinate axis handed to axes_to_points / grid_to_points
MaxAxisLen == 3
\* coordinates of those axes are drawn from 1..MaxCoord
MaxCoord == 3
\* largest nx, ny handed to geotransform_to_axes
MaxCells == 9
\* longest array handed to nan_allclose, erf and ensure_numeric
MaxLen == 2

(* ------------------------------ helpers -------------------------------- *)

SeqsUpTo(S, n) == UNION {[1..k -> S] : k \in 1..n}

Abs(v) == IF v < 0 THEN 0 - v ELSE v

NoResult == [status |-> "none"]

\* utilities.verify(statement, message): raises when the statement is false.
\* The module is imported by numerics.py; the error it raises is named by
\* the place of the call (geometry check or internal invariant).
verify(statement, error) == IF statement THEN "ok" ELSE error

(* --------------------------- axes_to_points ---------------------------- *)

\* numpy.flipud on a 1-d array: the elements in reverse order
flipud(y) == [i \in 1..Len(y) |-> y[Len(y) + 1 - i]]

\* numpy.ones(n)
ones(n) == [i \in 1..n |-> 1]

\* numpy.kron of two 1-d arrays: every a[i] * b[j], b varying fastest
kron(a, b) ==
    [k \in 1..(Len(a) * Len(b)) |->
        a[((k - 1) \div Len(b)) + 1] * b[((k - 1) % Len(b)) + 1]]

axes_to_points_flip_dropped(x, y) ==
    LET X == kron(ones(Len(y)), x)
        Y == kron(y, ones(Len(x)))
    IN  [status |-> "ok", points |-> [k \in 1..Len(X) |-> <<X[k], Y[k]>>]]

axes_to_points(x, y) ==
    LET yr == flipud(y)
        X == kron(ones(Len(yr)), x)
        Y == kron(yr, ones(Len(x)))
        N == Len(X)
        chk == verify(Len(Y) = N, "InternalInvariantError")
    IN  IF chk # "ok"
        THEN [status |-> chk]
        ELSE [status |-> "ok", points |-> [k \in 1..N |-> <<X[k], Y[k]>>]]

(* --------------------------- grid_to_points ---------------------------- *)

\* A.reshape(-1): the rows of A one after the other (row-major)
reshape_flat(A) ==
    IF Len(A) = 0 THEN <<>>
    ELSE [k \in 1..(Len(A) * Len(A[1])) |->
            A[((k - 1) \div Len(A[1])) + 1][((k - 1) % Len(A[1])) + 1]]

grid_to_points(A, x, y) ==
    IF Len(x) < 2 THEN [status |-> "IndexError"]
    ELSE LET cx == verify(x[1] < x[2], "InvalidGeometryError") IN
    IF cx # "ok" THEN [status |-> cx]
    ELSE IF Len(y) < 2 THEN [status |-> "IndexError"]
    ELSE LET cy == verify(y[1] < y[2], "InvalidGeometryError") IN
    IF cy # "ok" THEN [status |-> cy]
    ELSE LET P == axes_to_points(x, y) IN
    IF P.status # "ok" THEN P
    ELSE [status |-> "ok", points |-> P.points, values |-> reshape_flat(A)]

(* ------------------------- geotransform_to_axes ------------------------ *)

\* float(v): real numbers are held exactly, in units of one half, so that
\* the half-pixel offsets of the pixel centres are representable
float(v) == 2 * v

\* numpy.linspace(start, stop, num), endpoint included
linspace(start, stop, num) ==
    IF num = 1 THEN <<start>>
    ELSE LET step == (stop - start) \div (num - 1)
         IN  [i \in 1..num |-> IF i = num THEN stop ELSE start + (i - 1) * step]

geotransform_to_axes_corner_registered(G, nx, ny) ==
    LET lon_ul == float(G[1])
        lat_ul == float(G[4])
        dx == float(G[2])
        dy == 0 - float(G[6])
    IN  IF verify(dx > 0, "InvalidGeometryError") # "ok" \/ verify(dy > 0, "InvalidGeometryError") # "ok"
        THEN [status |-> "InvalidGeometryError"]
        ELSE [status |-> "ok",
              x |-> linspace(lon_ul, lon_ul + nx * dx - dx, nx),
              y |-> linspace(lat_ul - ny * dy, lat_ul - dy, ny)]

geotransform_to_axes_unchecked(G, nx, ny) ==
    LET lon_ul == float(G[1])
        lat_ul == float(G[4])
        dx == float(G[2])
        dy == 0 - float(G[6])
        dx2 == dx \div 2
        dy2 == dy \div 2
    IN  IF dx = 0 \/ dy = 0
        THEN [status |-> "InvalidGeometryError"]
        ELSE [status |-> "ok",
              x |-> linspace(lon_ul + dx2, lon_ul + nx * dx - dx2, nx),
              y |-> linspace(lat_ul - ny * dy + dy2, lat_ul - dy2, ny)]

geotransform_to_axes(G, nx, ny) ==
    LET lon_ul == float(G[1])
        lat_ul == float(G[4])
        dx == float(G[2])
        dy == 0 - float(G[6])
        c1 == verify(dx > 0, "InvalidGeometryError")
        c2 == verify(dy > 0, "InvalidGeometryError")
        lon_ll == lon_ul
        lat_ll == lat_ul - ny * dy
        lon_ur == lon_ul + nx * dx
        dx2 == dx \div 2
        dy2 == dy \div 2
    IN  IF c1 # "ok" THEN [status |-> c1]
        ELSE IF c2 # "ok" THEN [status |-> c2]
        ELSE [status |-> "ok",
              x |-> linspace(lon_ll + dx2, lon_ur - dx2, nx),
              y |-> linspace(lat_ll + dy2, lat_ul - dy2, ny)]


(* ----------------------------- nan_allclose ---------------------------- *)

\* an array element: a real number in units of 1e-8, or NaN
Scale == 10000 * 10000
Num(v) == [nan |-> FALSE, val |-> v]
NaN == [nan |-> TRUE, val |-> 0]

\* numpy.isnan: the mask of the NaN positions
isnan(x) == [i \in 1..Len(x.data) |-> x.data[i].nan]

any(mask) == \E i \in 1..Len(mask) : mask[i]
all(mask) == \A i \in 1..Len(mask) : mask[i]

\* xn != yn, position by position
mask_differs(xn, yn) == [i \in 1..Len(xn) |-> xn[i] # yn[i]]

\* x[mask]: the elements of x at the positions the mask selects
RECURSIVE take(_, _)
take(data, mask) ==
    IF Len(data) = 0 THEN <<>>
    ELSE IF mask[1] THEN <<data[1]>> \o take(Tail(data), Tail(mask))
    ELSE take(Tail(data), Tail(mask))

\* numpy.allclose: |x - y| <= atol + rtol * |y| at every position, NaN never
\* close; rtol is in units of 1e-5 and atol in units of 1e-8
allclose(x, y, rtol, atol) ==
    \A i \in 1..Len(x) :
        /\ ~x[i].nan
        /\ ~y[i].nan
        /\ Abs(x[i].val - y[i].val) <= atol + (rtol * Abs(y[i].val)) \div 100000

\* neg is what unary minus does to a boolean mask in the numpy installed:
\* the logical not (numpy before 1.13) or a TypeError (1.13 and later)
nan_allclose(x, y, rtol, atol, neg) ==
    LET xn == isnan(x)
        yn == isnan(y)
    IN  IF any(mask_differs(xn, yn)) THEN [status |-> "ok", value |-> FALSE]
        ELSE IF all(xn) THEN [status |-> "ok", value |-> TRUE]
        ELSE IF any(xn)
        THEN IF neg = "TypeError" THEN [status |-> "TypeError"]
             ELSE [status |-> "ok",
                   value |-> allclose(take(x.data, [i \in 1..Len(xn) |-> ~xn[i]]),
                                      take(y.data, [i \in 1..Len(yn) |-> ~yn[i]]),
                                      rtol, atol)]
        ELSE [status |-> "ok", value |-> allclose(x.data, y.data, rtol, atol)]

(* --------------------------------- erf --------------------------------- *)

\* Real numbers are fixed-point with eight decimals (units of 1e-8), the
\* precision the coefficients of the approximation are written in.  Products
\* and quotients are computed on the magnitudes, in pieces that stay inside
\* the integers of the checker, and round towards zero.
Sgn(v) == IF v < 0 THEN 0 - 1 ELSE 1

FxMul(a, b) ==
    LET a1 == Abs(a) \div 10000
        a0 == Abs(a) % 10000
        b1 == Abs(b) \div 10000
        b0 == Abs(b) % 10000
    IN  Sgn(a) * Sgn(b) *
            (a1 * b1 + (a1 * b0 + a0 * b1 + (a0 * b0) \div 10000) \div 10000)

TruncDiv(a, n) == Sgn(a) * (Abs(a) \div n)

RECURSIVE DivDigits(_, _, _, _)
DivDigits(r, b, n, acc) ==
    IF n = 0 THEN acc
    ELSE DivDigits((r * 10) % b, b, n - 1, acc * 10 + (r * 10) \div b)

\* a / b for 0 <= a, 0 < b
FxDiv(a, b) == DivDigits(a % b, b, 8, a \div b)

RECURSIVE TaylorExp(_, _, _, _)
TaylorExp(u, k, term, acc) ==
    IF term = 0 THEN acc
    ELSE LET nxt == TruncDiv(FxMul(term, u), k)
         IN  TaylorExp(u, k + 1, nxt, acc + nxt)

\* numpy.exp: the power series near 0, and exp(u) = exp(u/2)^2 away from it
RECURSIVE exp(_)
exp(u) ==
    IF Abs(u) > Scale \div 2
    THEN LET h == exp(TruncDiv(u, 2)) IN FxMul(h, h)
    ELSE TaylorExp(u, 1, Scale, Scale)

\* the nine coefficients of the Chebyshev fit, outermost first
Coefficients ==
    <<100002368, 37409196, 9678418, -18628806, 27886807,
      -113520398, 148851587, -82215223, 17087277>>

\* t * (c[k] + t * (c[k+1] + ... + t * c[9]))
RECURSIVE Horner(_, _)
Horner(t, k) ==
    IF k = Len(Coefficients) THEN FxMul(t, Coefficients[k])
    ELSE FxMul(t, Coefficients[k] + Horner(t, k + 1))

\* the value before the sign is restored
erf_ans(z) ==
    LET t == FxDiv(Scale, Scale + Abs(z) \div 2)
    IN  Scale - FxMul(t, exp(FxMul(0 - z, z) - 126551223 + Horner(t, 1)))

erf_without_negation(z) ==
    [status |-> "ok", scalar |-> z.scalar,
     data |-> [i \in 1..Len(z.data) |-> erf_ans(z.data[i])]]

\* z.scalar: len(z) raised TypeError, and z was wrapped as [z]
erf(z) ==
    LET ans == [i \in 1..Len(z.data) |-> erf_ans(z.data[i])]
        neg == [i \in 1..Len(z.data) |-> z.data[i] < 0]
    IN  [status |-> "ok", scalar |-> z.scalar,
         data |-> [i \in 1..Len(ans) |-> IF neg[i] THEN 0 - ans[i] ELSE ans[i]]]

(* ---------------------------- ensure_numeric --------------------------- *)

\* Array elements are real numbers in tenths.  arrays is the heap of numpy
\* arrays, an array reference is its index in it.
IsWhole(v) == v % 10 = 0

\* the element type numpy.array infers for a sequence
infer_dtype(data) ==
    IF \A i \in 1..Len(data) : IsWhole(data[i]) THEN "int" ELSE "float"

\* conversion of the elements to an element type
cast(data, dtype) ==
    IF dtype = "int"
    THEN [i \in 1..Len(data) |-> Sgn(data[i]) * ((Abs(data[i]) \div 10) * 10)]
    ELSE data

\* numpy.array(A): a new array, also when A is an array already
numpy_array(A, heap) ==
    LET data == IF A.kind = "ndarray" THEN heap[A.ref].data ELSE A.data
        dtype == IF A.kind = "ndarray" THEN heap[A.ref].dtype ELSE infer_dtype(data)
        fresh == [dtype |-> dtype, data |-> data]
    IN  [ret |-> [status |-> "ok", ref |-> Len(heap) + 1], heap |-> Append(heap, fresh)]

\* numpy.array(A, dtype=typecode, copy=False): A itself when it is an array
\* of that element type, a new array otherwise
numpy_array_nocopy(A, typecode, heap) ==
    IF A.kind = "ndarray" /\ heap[A.ref].dtype = typecode
    THEN [ret |-> [status |-> "ok", ref |-> A.ref], heap |-> heap]
    ELSE LET data == IF A.kind = "ndarray" THEN heap[A.ref].data ELSE A.data
             fresh == [dtype |-> typecode, data |-> cast(data, typecode)]
         IN  [ret |-> [status |-> "ok", ref |-> Len(heap) + 1],
              heap |-> Append(heap, fresh)]

ensure_numeric_string_check_nested(A, typecode, heap) ==
    IF typecode = "None"
    THEN IF A.kind = "str"
         THEN [ret |-> [status |-> "Exception"], heap |-> heap]
         ELSE IF A.kind = "ndarray"
         THEN [ret |-> [status |-> "ok", ref |-> A.ref], heap |-> heap]
         ELSE numpy_array(A, heap)
    ELSE IF A.kind = "str"
         THEN [ret |-> [status |-> "ValueError"],
               heap |-> Append(heap, [dtype |-> typecode, data |-> <<>>])]
         ELSE numpy_array_nocopy(A, typecode, heap)

ensure_numeric(A, typecode, heap) ==
    IF A.kind = "str"
    THEN [ret |-> [status |-> "Exception"], heap |-> heap]
    ELSE IF typecode = "None"
    THEN IF A.kind = "ndarray"
         THEN [ret |-> [status |-> "ok", ref |-> A.ref], heap |-> heap]
         ELSE numpy_array(A, heap)
    ELSE numpy_array_nocopy(A, typecode, heap)

(* ------------------------------ inputs --------------------------------- *)

\* every axis up to the bounds, and the axis <<10, 20>> of the documented example
Axes == SeqsUpTo(1..MaxCoord, MaxAxisLen) \cup {<<10, 20>>}

\* a grid of the given shape whose cells all hold different values
GridOf(ny, nx, base) ==
    [r \in 1..ny |-> [c \in 1..nx |-> base + (r - 1) * nx + c]]

AxesCalls == [op : {"axes_to_points"}, x : Axes, y : Axes]

GridCalls ==
    {[op |-> "grid_to_points", A |-> GridOf(Len(y), Len(x), base), x |-> x, y |-> y] :
        x \in Axes, y \in Axes, base \in {10, 50}}

Geotransforms ==
    {<<g0, g1, g2, g3, g4, g5>> :
        g0 \in {0, 100}, g1 \in {-1, 0, 1, 2}, g2 \in {0, 1},
        g3 \in {-3, 10}, g4 \in {0, 1}, g5 \in {-2, -1, 0, 1}}

GeoCalls ==
    [op : {"geotransform_to_axes"}, G : Geotransforms,
     nx : 1..MaxCells, ny : 1..MaxCells]

Elements == {NaN, Num(Scale), Num(Scale + 500), Num(2 * Scale)}

Operands ==
    [scalar : {TRUE}, data : [1..1 -> Elements]]
        \cup [scalar : {FALSE}, data : SeqsUpTo(Elements, MaxLen)]

\* x and y of the same shape
OperandPairs ==
    {p \in Operands \X Operands :
        p[1].scalar = p[2].scalar /\ Len(p[1].data) = Len(p[2].data)}

NanCalls ==
    {[op |-> "nan_allclose", x |-> p[1], y |-> p[2], rtol |-> rtol, atol |-> atol] :
        p \in OperandPairs, rtol \in {0, 1}, atol \in {0, 1}}

ZValues == {k * (Scale \div 2) : k \in -4..4}

ErfCalls ==
    [op : {"erf"},
     z : [scalar : {TRUE}, data : [1..1 -> ZValues]]
            \cup [scalar : {FALSE}, data : SeqsUpTo(ZValues, MaxLen)]]

Tenths == {-15, 0, 15, 20}

NdArrays ==
    [dtype : {"float"}, data : SeqsUpTo(Tenths, MaxLen)]
        \cup [dtype : {"int"}, data : SeqsUpTo({v \in Tenths : IsWhole(v)}, MaxLen)]

EnsureInputs ==
    [kind : {"str"}, data : {<<>>, <<15>>}]
        \cup [kind : {"ndarray"}, ref : {1}]
        \cup [kind : {"list"}, data : SeqsUpTo(Tenths, MaxLen)]
        \cup [kind : {"scalar"}, data : [1..1 -> Tenths]]

EnsureCalls ==
    [op : {"ensure_numeric"}, A : EnsureInputs, typecode : {"None", "float", "int"}]

\* the arrays that exist when the call is made
InitialArrays(c) ==
    IF c.op = "ensure_numeric" /\ c.A.kind = "ndarray"
    THEN {<<a>> : a \in NdArrays}
    ELSE {<<>>}

Calls == AxesCalls \cup GridCalls \cup GeoCalls \cup NanCalls \cup ErfCalls \cup EnsureCalls

(* ------------------------------ actions -------------------------------- *)

Init ==
    /\ pc = "call"
    /\ call \in Calls
    /\ result = NoResult
    /\ arrays \in InitialArrays(call)
    /\ boolNegative \in {"logical_not", "TypeError"}

AxesToPoints ==
    /\ pc = "call"
    /\ call.op = "axes_to_points"
    /\ result' = axes_to_points(call.x, call.y)
    /\ pc' = "done"
    /\ UNCHANGED <<call, arrays, boolNegative>>

GridToPoints ==
    /\ pc = "call"
    /\ call.op = "grid_to_points"
    /\ result' = grid_to_points(call.A, call.x, call.y)
    /\ pc' = "done"
    /\ UNCHANGED <<call, arrays, boolNegative>>

GeotransformToAxes ==
    /\ pc = "call"
    /\ call.op = "geotransform_to_axes"
    /\ result' = geotransform_to_axes(call.G, call.nx, call.ny)
    /\ pc' = "done"
    /\ UNCHANGED <<call, arrays, boolNegative>>

NanAllclose ==
    /\ pc = "call"
    /\ call.op = "nan_allclose"
    /\ result' = nan_allclose(call.x, call.y, call.rtol, call.atol, boolNegative)
    /\ pc' = "done"
    /\ UNCHANGED <<call, arrays, boolNegative>>

Erf ==
    /\ pc = "call"
    /\ call.op = "erf"
    /\ result' = erf(call.z)
    /\ pc' = "done"
    /\ UNCHANGED <<call, arrays, boolNegative>>

EnsureNumeric ==
    /\ pc = "call"
    /\ call.op = "ensure_numeric"
    /\ LET r == ensure_numeric(call.A, call.typecode, arrays)
       IN  /\ result' = r.ret
           /\ arrays' = r.heap
    /\ pc' = "done"
    /\ UNCHANGED <<call, boolNegative>>

Next ==
    \/ AxesToPoints
    \/ GridToPoints
    \/ GeotransformToAxes
    \/ NanAllclose
    \/ Erf
    \/ EnsureNumeric

Spec == Init /\ [][Next]_vars

(* ------------------------------ properties ----------------------------- *)

StrictlyIncreasing(a) == \A i \in 1..(Len(a) - 1) : a[i] < a[i + 1]

Returned(op) == pc = "done" /\ call.op = op

\* C1: axes_to_points(x, y) returns nx*ny points, point i being
\* (x[i % nx], y[i // nx]): x fastest and the y values in the order given.
C1_AxesToPointsYInGivenOrder ==
    Returned("axes_to_points") =>
        LET nx == Len(call.x)
            ny == Len(call.y)
        IN  /\ result.status = "ok"
            /\ Len(result.points) = nx * ny
            /\ \A i \in 0..(nx * ny - 1) :
                  result.points[i + 1] = <<call.x[(i % nx) + 1], call.y[(i \div nx) + 1]>>

\* C2: on strictly increasing axes, what grid_to_points returns pairs, at
\* every index i, the value A[i // nx][i % nx] with the coordinate of that
\* same cell, (x[i % nx], y[i // nx]).
C2_GridToPointsCorrespondence ==
    (Returned("grid_to_points") /\ StrictlyIncreasing(call.x)
        /\ StrictlyIncreasing(call.y) /\ result.status = "ok") =>
        LET nx == Len(call.x)
            ny == Len(call.y)
        IN  \A i \in 0..(nx * ny - 1) :
                /\ result.values[i + 1] = call.A[(i \div nx) + 1][(i % nx) + 1]
                /\ result.points[i + 1] = <<call.x[(i % nx) + 1], call.y[(i \div nx) + 1]>>

C4_GridToPointsRejectsAnyViolation ==
    (Returned("grid_to_points") /\ Len(call.x) >= 2 /\ Len(call.y) >= 2
        /\ (~StrictlyIncreasing(call.x) \/ ~StrictlyIncreasing(call.y))) =>
        result.status = "InvalidGeometryError"

\* C5: on strictly increasing axes of lengths nx >= 1 and ny >= 1,
\* grid_to_points returns normally, with nx*ny points and nx*ny values.
C5_GridToPointsLengths ==
    (Returned("grid_to_points") /\ StrictlyIncreasing(call.x)
        /\ StrictlyIncreasing(call.y)) =>
        /\ result.status = "ok"
        /\ Len(result.points) = Len(call.x) * Len(call.y)
        /\ Len(result.values) = Len(call.x) * Len(call.y)

C7_GeotransformRejectsNonPositive ==
    (Returned("geotransform_to_axes") /\ (call.G[2] <= 0 \/ call.G[6] >= 0)) =>
        /\ result.status = "InvalidGeometryError"
        /\ DOMAIN result = {"status"}

C7_Witness ==
    /\ Returned("geotransform_to_axes")
    /\ call.G[2] > 0
    /\ call.G[6] > 0
    /\ call.nx > 1
    /\ result.status = "InvalidGeometryError"

\* C8: nan_allclose(x, y) is False when some position is NaN in exactly one
\* of x and y, True when every position of both is NaN, and True for
\* nan_allclose(x, x), also when x holds NaN at some but not all positions.
C8_NanAllcloseMatchesNaNs ==
    Returned("nan_allclose") =>
        /\ (\E i \in 1..Len(call.x.data) : call.x.data[i].nan # call.y.data[i].nan)
              => (result.status = "ok" /\ result.value = FALSE)
        /\ (\A i \in 1..Len(call.x.data) : call.x.data[i].nan /\ call.y.data[i].nan)
              => (result.status = "ok" /\ result.value = TRUE)
        /\ (call.x = call.y) => (result.status = "ok" /\ result.value = TRUE)

\* the value erf returns for the scalar v
ScalarErf(v) == erf([scalar |-> TRUE, data |-> <<v>>]).data[1]

\* what C9 and its amendment share: erf returns a scalar for a scalar and an
\* array of the same length for an array, element k being erf of the scalar
\* z[k], and at every z[k] < 0 the negation of the value computed for |z[k]|
ErfShape ==
    /\ result.status = "ok"
    /\ result.scalar = call.z.scalar
    /\ Len(result.data) = Len(call.z.data)
    /\ \A k \in 1..Len(call.z.data) :
          /\ result.data[k] = ScalarErf(call.z.data[k])
          /\ call.z.data[k] < 0 => result.data[k] = 0 - erf_ans(Abs(call.z.data[k]))

\* C9 as claimed: erf is shape-preserving, erf(-z) == -erf(z) for every
\* scalar z, and erf(0) == 0.
C9_ErfOddEverywhere ==
    Returned("erf") =>
        /\ ErfShape
        /\ \A k \in 1..Len(call.z.data) :
              /\ ScalarErf(0 - call.z.data[k]) = 0 - result.data[k]
              /\ call.z.data[k] = 0 => result.data[k] = 0

\* C9 as amended: erf is shape-preserving, erf(-z) == -erf(z) for every
\* scalar z other than 0, and erf(0) is not 0 but within 1.2e-7 of it
\* (12 units of 1e-8).
C9_ErfOddAwayFromZero ==
    Returned("erf") =>
        /\ ErfShape
        /\ \A k \in 1..Len(call.z.data) :
              /\ call.z.data[k] # 0 => ScalarErf(0 - call.z.data[k]) = 0 - result.data[k]
              /\ call.z.data[k] = 0 => (result.data[k] # 0 /\ Abs(result.data[k]) <= 12)

C9_Witness ==
    /\ Returned("erf")
    /\ call.z = [scalar |-> FALSE, data |-> <<0 - Scale, 0>>]
    /\ result.data = <<0 - 84270080, 0 - 3>>

\* C10: ensure_numeric fails on every string, with or without a target
\* type, before any array is constructed; and without a target type it
\* returns a numeric array itself, no array constructed or changed.
C10_EnsureNumericFrame ==
    [][(pc = "call" /\ call.op = "ensure_numeric" /\ pc' = "done") =>
          /\ call.A.kind = "str" =>
                (result'.status = "Exception" /\ arrays' = arrays)
          /\ (call.A.kind = "ndarray" /\ call.typecode = "None") =>
                /\ result'.status = "ok"
                /\ result'.ref = call.A.ref
                /\ arrays' = arrays
                /\ arrays'[result'.ref] = arrays[call.A.ref]]_vars

C10_Witness ==
    /\ Returned("ensure_numeric")
    /\ call.A.kind = "ndarray"
    /\ call.typecode = "None"
    /\ result.status = "ok"
    /\ result.ref = 1
    /\ arrays = <<[dtype |-> "float", data |-> <<15, 20>>]>>

====
